---- MODULE Spec2Model ----
(***************************************************************************)
(* State-machine model of matrix_client/api.py (MatrixHttpApi).            *)
(*                                                                         *)
(* Python values are represented as follows.                               *)
(*   - text that is interpolated into a request path (room ids, event      *)
(*     types, state keys, HTTP method names) is a sequence of character    *)
(*     codes (ASCII), so that quoting, upper-casing and concatenation act  *)
(*     on characters as they do in the code;                               *)
(*   - an optional argument is None (the empty tuple) or Some(v) (the      *)
(*     one-element tuple <<v>>);                                           *)
(*   - a dict is a function from key strings to values; <<>> is {}.        *)
(* The HTTP transport (requests.request) and the JSON codec are external:  *)
(* the transport is the variable wire (the request it has been handed)     *)
(* and the action that answers it.                                         *)
(***************************************************************************)
EXTENDS Integers, Sequences, FiniteSets, TLC

\* ------------------------------------------------------------------------
\* Bounds of the model
\* ------------------------------------------------------------------------

\* message sends recorded by the transport over all sessions
MaxSends == 3

\* ------------------------------------------------------------------------
\* Python values
\* ------------------------------------------------------------------------

None == <<>>

Some(v) == <<v>>

IsNone(o) == Len(o) = 0

\* dict[k] = v
Put(d, k, v) == [x \in (DOMAIN d) \cup {k} |-> IF x = k THEN v ELSE d[x]]

EmptyDict == <<>>

\* unicode(n) for an int n >= 0: its decimal digits
RECURSIVE Unicode(_)
Unicode(n) == IF n < 10 THEN <<48 + n>> ELSE Unicode(n \div 10) \o <<48 + (n % 10)>>

\* str.upper() on ASCII text
UpperChar(c) == IF c >= 97 /\ c <= 122 THEN c - 32 ELSE c

Upper(s) == [i \in 1..Len(s) |-> UpperChar(s[i])]

\* urllib.always_safe: letters, digits and "_.-"
AlwaysSafe == (65..90) \cup (97..122) \cup (48..57) \cup {95, 46, 45}

\* the default value of urllib.quote's parameter safe: "/"
QuoteSafe == {47}

\* '%02X' of a nibble
HexDigit(n) == IF n < 10 THEN 48 + n ELSE 55 + n

QuoteChar(c) ==
    IF c \in AlwaysSafe \cup QuoteSafe
    THEN <<c>>
    ELSE <<37, HexDigit(c \div 16), HexDigit(c % 16)>>

\* urllib.quote(s)
RECURSIVE Quote(_)
Quote(s) == IF Len(s) = 0 THEN <<>> ELSE QuoteChar(Head(s)) \o Quote(Tail(s))

\* ------------------------------------------------------------------------
\* Text literals of the source (ASCII codes)
\* ------------------------------------------------------------------------

\* "GET", "PUT", "POST", "DELETE"
GET == <<71, 69, 84>>

PUT == <<80, 85, 84>>

POST == <<80, 79, 83, 84>>

DELETE == <<68, 69, 76, 69, 84, 69>>

\* "/_matrix/client/api/v1"
ApiPath == <<47, 95, 109, 97, 116, 114, 105, 120, 47, 99, 108, 105, 101, 110,
             116, 47, 97, 112, 105, 47, 118, 49>>

\* "/initialSync"
PathInitialSync == <<47, 105, 110, 105, 116, 105, 97, 108, 83, 121, 110, 99>>

\* "/register"
PathRegister == <<47, 114, 101, 103, 105, 115, 116, 101, 114>>

\* "/login"
PathLogin == <<47, 108, 111, 103, 105, 110>>

\* "/createRoom"
PathCreateRoom == <<47, 99, 114, 101, 97, 116, 101, 82, 111, 111, 109>>

\* "/events"
PathEvents == <<47, 101, 118, 101, 110, 116, 115>>

\* "m.room.message"
MRoomMessage == <<109, 46, 114, 111, 111, 109, 46, 109, 101, 115, 115, 97, 103, 101>>

\* "/join/%s" % room_id_or_alias
JoinPath(room_id_or_alias) == <<47, 106, 111, 105, 110, 47>> \o room_id_or_alias

\* "/rooms/%s/state/%s" % (quote(room_id), quote(event_type)), then
\* "/%s" % quote(state_key) when state_key is not empty
StatePath(room_id, event_type, state_key) ==
    LET path == <<47, 114, 111, 111, 109, 115, 47>> \o Quote(room_id)
                \o <<47, 115, 116, 97, 116, 101, 47>> \o Quote(event_type)
    IN  IF Len(state_key) # 0 THEN path \o <<47>> \o Quote(state_key) ELSE path

\* "/rooms/%s/send/%s/%s" % (quote(room_id), quote(event_type),
\*                           quote(unicode(txn_id)))
SendPath(room_id, event_type, txn) ==
    <<47, 114, 111, 111, 109, 115, 47>> \o Quote(room_id)
    \o <<47, 115, 101, 110, 100, 47>> \o Quote(event_type)
    \o <<47>> \o Quote(Unicode(txn))

\* ------------------------------------------------------------------------
\* Inputs
\* ------------------------------------------------------------------------

\* the client objects (MatrixHttpApi instances)
Sessions == {1, 2}

\* token arguments of the constructors of sessions 1 and 2: the first session
\* is built without a token, the second with one
TokenArgs == { <<None, Some("syt_A")>> }

\* base_url argument of the constructor: a bare home server URL, one with a
\* path, and one that already is the API root
BaseUrls ==
    { [origin |-> "http://localhost:8008", path |-> <<>>],
      [origin |-> "http://localhost:8008", path |-> <<47, 120>>],
      [origin |-> "http://localhost:8008", path |-> ApiPath] }

Limits == {1, 5}

LoginTypes == {"m.login.password"}

Kwargs == {[user |-> "alice"], [type |-> "m.login.dummy"]}

\* (alias, is_public, invitees) of create_room
CreateRoomArgs ==
    { <<None, FALSE, <<>> >>, <<Some("lobby"), TRUE, <<"@bob:hs">> >>,
      <<Some(""), TRUE, <<>> >>, <<None, FALSE, <<"@bob:hs">> >> }

\* "!r:h" and "#a/b"
RoomR == <<33, 114, 58, 104>>

AliasAB == <<35, 97, 47, 98>>

\* room_id_or_alias of join_room: None, "", "!r:h", "#a/b"
JoinArgs == {None, Some(<<>>), Some(RoomR), Some(AliasAB)}

FromTokens == {"s72594"}

Timeouts == {30000, 0}

RoomIds == {RoomR}

\* "m.room.name"
StateEventTypes == {<<109, 46, 114, 111, 111, 109, 46, 110, 97, 109, 101>>}

\* state_key: "", "k", "a/b"
StateKeys == {<<>>, <<107>>, <<97, 47, 98>>}

StateContents == {[name |-> "Lobby"]}

MessageEventTypes == {MRoomMessage}

MessageContents == {[msgtype |-> "m.text", body |-> "hi"]}

Texts == {"Hello!"}

\* txn_id of send_message_event: omitted, 0, 7
TxnArgs == {None, Some(0), Some(7)}

\* method of a direct _send: "get", "PATCH", "patch"
MethodInputs == { <<103, 101, 116>>, <<80, 65, 84, 67, 72>>,
                  <<112, 97, 116, 99, 104>> }

\* path of a direct _send: "/publicRooms"
DirectPaths == {<<47, 112, 117, 98, 108, 105, 99, 82, 111, 111, 109, 115>>}

\* (query_params, headers) of a direct _send: both defaulted, or both given
DirectArgs == { <<None, None>>, <<Some([dir |-> "b"]), Some([Accept |-> "*/*"])>> }

\* what the transport may answer: status code and body text
Responses ==
    { [status |-> 199, text |-> "{}"],
      [status |-> 200, text |-> "{}"],
      [status |-> 200, text |-> "not json"],
      [status |-> 299, text |-> "{}"],
      [status |-> 300, text |-> "{}"],
      [status |-> 403, text |-> "{\"errcode\":\"M_FORBIDDEN\"}"] }

\* the JSON codec (external): the texts that parse, and their values
JsonValid(text) == text \in {"{}", "{\"errcode\":\"M_FORBIDDEN\"}"}

JsonLoads(text) ==
    IF text = "{}" THEN EmptyDict ELSE [errcode |-> "M_FORBIDDEN"]

\* json.dumps(content): None is the text null; a dict is kept as the value
\* that the text denotes
JsonDumps(content) ==
    IF IsNone(content) THEN [json |-> "null"] ELSE [json |-> content[1]]

\* ------------------------------------------------------------------------
\* State
\* ------------------------------------------------------------------------

VARIABLES
    url,                \* url[s]: self.url of session s
    token,              \* token[s]: self.token
    txn_id,             \* txn_id[s]: self.txn_id
    dflt_query_params,  \* the dict that is the default of _send's query_params
    dflt_headers,       \* the dict that is the default of _send's headers
    wire,               \* the request requests.request has been handed and
                        \* has not yet answered (at most one in sequential use)
    result,             \* how the latest call ended (or that it is running)
    sends,              \* the transport's record of message-send requests,
                        \* in call order
    pc,                 \* pc[t]: where thread t is in its call
    loc,                \* loc[t]: the local variables of thread t's call
    net,                \* requests handed to the transport by the threads
    overlap             \* whether two calls of the threads ever overlapped

vars == <<url, token, txn_id, dflt_query_params, dflt_headers, wire, result,
          sends, pc, loc, net, overlap>>

seqvars == <<wire, result, sends>>

thrvars == <<pc, loc, net, overlap>>

Threads == {1, 2}

\* ------------------------------------------------------------------------
\* MatrixHttpApi.__init__
\* ------------------------------------------------------------------------

\* s.endswith(suffix)
EndsWith(s, suffix) ==
    /\ Len(s) >= Len(suffix)
    /\ SubSeq(s, Len(s) - Len(suffix) + 1, Len(s)) = suffix

\* urlparse.urljoin(base_url, "/_matrix/client/api/v1"): the second argument
\* is an absolute path, which replaces the path of the base
UrlJoin(base_url, path) == [origin |-> base_url.origin, path |-> path]

\* lines 55-58; the origin holds no "/_matrix/client/api/v1", so the whole
\* URL ends with it when its path does
NormalizeUrl(base_url) ==
    IF ~ EndsWith(base_url.path, ApiPath)
    THEN UrlJoin(base_url, ApiPath)
    ELSE base_url

\* self.url + path
Endpoint(u, path) == [origin |-> u.origin, path |-> u.path \o path]

NoResult ==
    [kind |-> "none", message |-> <<>>, code |-> 0, content |-> "",
     value |-> EmptyDict, nreq |-> 0, response |-> None]

NoLocals ==
    [session |-> 1, op |-> "none", txn |-> 0, tmp |-> 0, own_params |-> None,
     path |-> <<>>, outcome |-> "none"]

Init ==
    /\ \E b \in [Sessions -> BaseUrls] : url = [s \in Sessions |-> NormalizeUrl(b[s])]
    /\ \E tk \in TokenArgs : token = [s \in Sessions |-> tk[s]]
    /\ txn_id = [s \in Sessions |-> 0]
    /\ dflt_query_params = EmptyDict
    /\ dflt_headers = EmptyDict
    /\ wire = <<>>
    /\ result = NoResult
    /\ sends = <<>>
    /\ pc = [t \in Threads |-> "idle"]
    /\ loc = [t \in Threads |-> NoLocals]
    /\ net = <<>>
    /\ overlap = FALSE

\* ------------------------------------------------------------------------
\* MatrixHttpApi._send
\* ------------------------------------------------------------------------

\* line 209: method not in ["GET", "PUT", "DELETE", "POST"]
SupportedMethod(method) == method \in {GET, PUT, DELETE, POST}

\* query_params.setdefault("access_token", self.token): a token already in
\* the dict is kept
WithAccessTokenIfAbsent(query_params, tok) ==
    IF "access_token" \in DOMAIN query_params
    THEN query_params
    ELSE [x \in (DOMAIN query_params) \cup {"access_token"} |->
             IF x = "access_token" THEN tok ELSE query_params[x]]

\* line 212: headers["Content-Type"] = "application/json"
WithContentType(headers) == Put(headers, "Content-Type", "application/json")

\* line 213: query_params["access_token"] = self.token
WithAccessToken(query_params, tok) == Put(query_params, "access_token", tok)

\* the dict a parameter of _send is bound to: the shared default when the
\* caller passes none, the caller's dict otherwise
Bound(arg, dflt) == IF IsNone(arg) THEN dflt ELSE arg[1]

\* the default dict is updated with what every call sends
DefaultAfterLeaking(arg, dflt, written) == written

\* the shared default after the call wrote `written` into the dict its
\* parameter is bound to
DefaultAfter(arg, dflt, written) == IF IsNone(arg) THEN written ELSE dflt

\* status_code > 300 in place of >= 300
IsErrorStatusOffByOne(status_code) == status_code < 200 \/ status_code > 300

\* line 221
IsErrorStatus(status_code) == status_code < 200 \/ status_code >= 300

\* raise MatrixError(message) before any request is made
Raised(message) ==
    [kind |-> "MatrixError", message |-> message, code |-> 0, content |-> "",
     value |-> EmptyDict, nreq |-> 0, response |-> None]

\* the call is inside requests.request
Running ==
    [kind |-> "running", message |-> <<>>, code |-> 0, content |-> "",
     value |-> EmptyDict, nreq |-> 1, response |-> None]

\* lines 207-219: _send up to the hand-over of the request to the transport
Send(s, call, method, path, content, query_params, headers) ==
    LET m  == Upper(method)
        hd == WithContentType(Bound(headers, dflt_headers))
        qp == WithAccessToken(Bound(query_params, dflt_query_params), token[s])
    IN  IF ~ SupportedMethod(m)
        THEN /\ result' = Raised(<<"Unsupported HTTP method: ", m>>)
             /\ UNCHANGED <<wire, dflt_query_params, dflt_headers>>
        ELSE /\ dflt_headers' = DefaultAfter(headers, dflt_headers, hd)
             /\ dflt_query_params' = DefaultAfter(query_params, dflt_query_params, qp)
             /\ wire' = <<[session |-> s, call |-> call, method |-> m,
                           endpoint |-> Endpoint(url[s], path),
                           params |-> qp, headers |-> hd,
                           data |-> JsonDumps(content)]>>
             /\ result' = Running

\* lines 221-226: the transport answers; _send raises or returns
Respond ==
    /\ Len(wire) = 1
    /\ \E response \in Responses :
         result' =
           IF IsErrorStatus(response.status)
           THEN [kind |-> "MatrixRequestError",
                 message |-> <<response.status, ": ", response.text>>,
                 code |-> response.status, content |-> response.text,
                 value |-> EmptyDict, nreq |-> result.nreq,
                 response |-> Some(response)]
           ELSE IF JsonValid(response.text)
           THEN [kind |-> "returned", message |-> <<>>, code |-> 0,
                 content |-> "", value |-> JsonLoads(response.text),
                 nreq |-> result.nreq, response |-> Some(response)]
           ELSE [kind |-> "ValueError", message |-> <<>>, code |-> 0,
                 content |-> "", value |-> EmptyDict, nreq |-> result.nreq,
                 response |-> Some(response)]
    /\ wire' = <<>>
    /\ UNCHANGED <<url, token, txn_id, dflt_query_params, dflt_headers, sends>>
    /\ UNCHANGED thrvars

\* line 216: requests.request raises (connection refused, DNS, TLS); the
\* exception passes through _send
TransportFails ==
    /\ Len(wire) = 1
    /\ result' = [kind |-> "TransportError", message |-> <<>>, code |-> 0,
                  content |-> "", value |-> EmptyDict, nreq |-> result.nreq,
                  response |-> None]
    /\ wire' = <<>>
    /\ UNCHANGED <<url, token, txn_id, dflt_query_params, dflt_headers, sends>>
    /\ UNCHANGED thrvars

\* ------------------------------------------------------------------------
\* The calls, in sequential use: a call starts when no call is running and
\* runs up to the point where it raises or hands its request to the transport
\* ------------------------------------------------------------------------

NoCallRunning == Len(wire) = 0

\* lines 62-68
InitialSync(s, limit) ==
    /\ NoCallRunning
    /\ Send(s, [op |-> "initial_sync", limit |-> limit], GET, PathInitialSync,
            None, Some([limit |-> limit]), None)
    /\ UNCHANGED <<url, token, txn_id, sends>>
    /\ UNCHANGED thrvars

\* lines 77-81 and 92-96: {"type": login_type}, then every keyword argument
TypedContent(login_type, kwargs) ==
    [k \in {"type"} \cup DOMAIN kwargs |->
        IF k \in DOMAIN kwargs THEN kwargs[k] ELSE login_type]

\* lines 70-83
Register(s, login_type, kwargs) ==
    /\ NoCallRunning
    /\ Send(s, [op |-> "register"], POST, PathRegister,
            Some(TypedContent(login_type, kwargs)), None, None)
    /\ UNCHANGED <<url, token, txn_id, sends>>
    /\ UNCHANGED thrvars

\* lines 85-98
Login(s, login_type, kwargs) ==
    /\ NoCallRunning
    /\ Send(s, [op |-> "login"], POST, PathLogin,
            Some(TypedContent(login_type, kwargs)), None, None)
    /\ UNCHANGED <<url, token, txn_id, sends>>
    /\ UNCHANGED thrvars

\* lines 108-114
CreateRoomContent(alias, is_public, invitees) ==
    LET c0 == [visibility |-> IF is_public THEN "public" ELSE "private"]
        c1 == IF ~ IsNone(alias) /\ alias[1] # ""
              THEN Put(c0, "room_alias_name", alias[1]) ELSE c0
    IN  IF Len(invitees) # 0 THEN Put(c1, "invite", invitees) ELSE c1

\* lines 100-115
CreateRoom(s, alias, is_public, invitees) ==
    /\ NoCallRunning
    /\ Send(s, [op |-> "create_room"], POST, PathCreateRoom,
            Some(CreateRoomContent(alias, is_public, invitees)), None, None)
    /\ UNCHANGED <<url, token, txn_id, sends>>
    /\ UNCHANGED thrvars

\* room_id_or_alias is None in place of not room_id_or_alias
MissingRoomNoneOnly(room_id_or_alias) == Len(room_id_or_alias) = 0

\* line 123: not room_id_or_alias
MissingRoom(room_id_or_alias) ==
    IsNone(room_id_or_alias) \/ Len(room_id_or_alias[1]) = 0

\* lines 117-128
JoinRoom(s, room_id_or_alias) ==
    /\ NoCallRunning
    /\ IF MissingRoom(room_id_or_alias)
       THEN /\ result' = Raised(<<"No alias or room ID to join.">>)
            /\ UNCHANGED <<wire, dflt_query_params, dflt_headers>>
       ELSE Send(s, [op |-> "join_room", room |-> room_id_or_alias[1]], POST,
                 JoinPath(room_id_or_alias[1]), None, None, None)
    /\ UNCHANGED <<url, token, txn_id, sends>>
    /\ UNCHANGED thrvars

\* lines 130-143
EventStream(s, from_token, timeout) ==
    /\ NoCallRunning
    /\ Send(s, [op |-> "event_stream", from |-> from_token, timeout |-> timeout],
            GET, PathEvents, None,
            Some([timeout |-> timeout, from |-> from_token]), None)
    /\ UNCHANGED <<url, token, txn_id, sends>>
    /\ UNCHANGED thrvars

\* lines 145-159
SendStateEvent(s, room_id, event_type, content, state_key) ==
    /\ NoCallRunning
    /\ Send(s, [op |-> "send_state_event", room |-> room_id,
                event_type |-> event_type, state_key |-> state_key],
            PUT, StatePath(room_id, event_type, state_key), Some(content),
            None, None)
    /\ UNCHANGED <<url, token, txn_id, sends>>
    /\ UNCHANGED thrvars

\* the counter is read after line 173 advanced it
ChooseTxnIdAfterIncrement(txn_arg, counter) ==
    IF Len(txn_arg) = 0 \/ txn_arg[1] = 0 THEN counter + 1 ELSE txn_arg[1]

\* the caller's txn_id is ignored
ChooseTxnIdCounterOnly(txn_arg, counter) == counter

\* lines 170-171: if not txn_id: txn_id = self.txn_id
ChooseTxnId(txn_arg, counter) ==
    IF IsNone(txn_arg) \/ txn_arg[1] = 0 THEN counter ELSE txn_arg[1]

\* the counter is not advanced
NextTxnIdStuck(counter) == counter

\* the counter wraps around
NextTxnIdWrapping(counter) == (counter + 1) % 2

\* line 173: self.txn_id + 1
NextTxnId(counter) == counter + 1

\* lines 170-179, for send_message_event and for send_message, which
\* delegates to it
SendMessageEventBody(s, op, room_id, event_type, content, txn_arg) ==
    LET txn  == ChooseTxnId(txn_arg, txn_id[s])
        path == SendPath(room_id, event_type, txn)
    IN  /\ txn_id' = [txn_id EXCEPT ![s] = NextTxnId(txn_id[s])]
        /\ Send(s, [op |-> op, room |-> room_id, event_type |-> event_type,
                    txn_arg |-> txn_arg, txn |-> txn],
                PUT, path, Some(content), None, None)
        /\ sends' = Append(sends, [session |-> s, txn_arg |-> txn_arg,
                                   path |-> path])

\* lines 161-179
SendMessageEvent(s, room_id, event_type, content, txn_arg) ==
    /\ NoCallRunning
    /\ Len(sends) < MaxSends
    /\ SendMessageEventBody(s, "send_message_event", room_id, event_type,
                            content, txn_arg)
    /\ UNCHANGED <<url, token>>
    /\ UNCHANGED thrvars

\* lines 193-197
GetTextBody(text) == [msgtype |-> "m.text", body |-> text]

\* lines 181-191
SendMessage(s, room_id, text_content) ==
    /\ NoCallRunning
    /\ Len(sends) < MaxSends
    /\ SendMessageEventBody(s, "send_message", room_id, MRoomMessage,
                            GetTextBody(text_content), None)
    /\ UNCHANGED <<url, token>>
    /\ UNCHANGED thrvars

\* lines 207-219: the dispatcher called directly
DirectSend(s, method, path, query_params, headers) ==
    /\ NoCallRunning
    /\ Send(s, [op |-> "_send", query_params |-> query_params,
                headers |-> headers],
            method, path, None, query_params, headers)
    /\ UNCHANGED <<url, token, txn_id, sends>>
    /\ UNCHANGED thrvars

Next ==
    \/ \E s \in Sessions, limit \in Limits : InitialSync(s, limit)
    \/ \E s \in Sessions, lt \in LoginTypes, kw \in Kwargs : Register(s, lt, kw)
    \/ \E s \in Sessions, lt \in LoginTypes, kw \in Kwargs : Login(s, lt, kw)
    \/ \E s \in Sessions, a \in CreateRoomArgs : CreateRoom(s, a[1], a[2], a[3])
    \/ \E s \in Sessions, r \in JoinArgs : JoinRoom(s, r)
    \/ \E s \in Sessions, f \in FromTokens, t \in Timeouts : EventStream(s, f, t)
    \/ \E s \in Sessions, r \in RoomIds, e \in StateEventTypes,
          c \in StateContents, k \in StateKeys : SendStateEvent(s, r, e, c, k)
    \/ \E s \in Sessions, r \in RoomIds, e \in MessageEventTypes,
          c \in MessageContents, x \in TxnArgs : SendMessageEvent(s, r, e, c, x)
    \/ \E s \in Sessions, r \in RoomIds, x \in Texts : SendMessage(s, r, x)
    \/ \E s \in Sessions, m \in MethodInputs, p \in DirectPaths,
          a \in DirectArgs : DirectSend(s, m, p, a[1], a[2])
    \/ Respond
    \/ TransportFails

Spec == Init /\ [][Next]_vars

\* ------------------------------------------------------------------------
\* The calls, made by threads without synchronization: each thread makes one
\* call, and a thread switch can fall between any two steps below (each is
\* one attribute or item load or store of the interpreter). A thread stays
\* inside its call while requests.request waits for the response, and leaves
\* it when _send returns or raises
\* ------------------------------------------------------------------------

\* the calls the threads make: send_message_event without a txn_id, register
\* (which leaves query_params to its default) and initial_sync (which passes a
\* dict of its own)
ThreadOps == {"send_message_event", "register", "initial_sync"}

\* thread t has entered its call and the call has not returned or raised yet;
\* this includes the wait inside requests.request
InCall(t) == pc[t] \notin {"idle", "done"}

\* thread t enters op on session s (lines 68, 83, 161)
Call(t, s, op) ==
    /\ pc[t] = "idle"
    /\ loc' = [loc EXCEPT ![t] =
                 [session |-> s, op |-> op, txn |-> 0, tmp |-> 0,
                  own_params |-> IF op = "initial_sync"
                                 THEN Some([limit |-> 1]) ELSE None,
                  path |-> IF op = "initial_sync" THEN PathInitialSync
                           ELSE PathRegister,
                  outcome |-> "none"]]
    /\ pc' = [pc EXCEPT ![t] = IF op = "send_message_event" THEN "read_txn"
                               ELSE "set_headers"]
    /\ overlap' = (overlap \/ \E u \in Threads \ {t} : InCall(u))
    /\ UNCHANGED <<url, token, txn_id, dflt_query_params, dflt_headers, net>>
    /\ UNCHANGED seqvars

\* lines 170-171: txn_id = self.txn_id
ReadTxn(t) ==
    /\ pc[t] = "read_txn"
    /\ loc' = [loc EXCEPT ![t].txn = ChooseTxnId(None, txn_id[loc[t].session])]
    /\ pc' = [pc EXCEPT ![t] = "load_txn"]
    /\ UNCHANGED <<url, token, txn_id, dflt_query_params, dflt_headers, net, overlap>>
    /\ UNCHANGED seqvars

\* line 173, right-hand side: the load of self.txn_id
LoadTxn(t) ==
    /\ pc[t] = "load_txn"
    /\ loc' = [loc EXCEPT ![t].tmp = txn_id[loc[t].session]]
    /\ pc' = [pc EXCEPT ![t] = "store_txn"]
    /\ UNCHANGED <<url, token, txn_id, dflt_query_params, dflt_headers, net, overlap>>
    /\ UNCHANGED seqvars

\* line 173, the store to self.txn_id; lines 175-178 build the path from locals
StoreTxn(t) ==
    /\ pc[t] = "store_txn"
    /\ txn_id' = [txn_id EXCEPT ![loc[t].session] = NextTxnId(loc[t].tmp)]
    /\ loc' = [loc EXCEPT ![t].path = SendPath(RoomR, MRoomMessage, loc[t].txn)]
    /\ pc' = [pc EXCEPT ![t] = "set_headers"]
    /\ UNCHANGED <<url, token, dflt_query_params, dflt_headers, net, overlap>>
    /\ UNCHANGED seqvars

\* line 212: no caller passes headers, so the store goes to the shared default
SetHeaders(t) ==
    /\ pc[t] = "set_headers"
    /\ dflt_headers' = WithContentType(dflt_headers)
    /\ pc' = [pc EXCEPT ![t] = "set_token"]
    /\ UNCHANGED <<url, token, txn_id, dflt_query_params, loc, net, overlap>>
    /\ UNCHANGED seqvars

\* line 213: the store goes to the dict query_params is bound to
SetToken(t) ==
    /\ pc[t] = "set_token"
    /\ LET own == loc[t].own_params
           qp  == WithAccessToken(Bound(own, dflt_query_params),
                                  token[loc[t].session])
       IN  /\ dflt_query_params' = DefaultAfter(own, dflt_query_params, qp)
           /\ loc' = [loc EXCEPT ![t].own_params =
                         IF IsNone(own) THEN None ELSE Some(qp)]
    /\ pc' = [pc EXCEPT ![t] = "request"]
    /\ UNCHANGED <<url, token, txn_id, dflt_headers, net, overlap>>
    /\ UNCHANGED seqvars

\* line 216: requests.request is handed the dicts as they are now, and the
\* thread waits inside it for the response
Request(t) ==
    /\ pc[t] = "request"
    /\ net' = Append(net, [thread |-> t, session |-> loc[t].session,
                           op |-> loc[t].op, txn |-> loc[t].txn,
                           path |-> loc[t].path,
                           params |-> Bound(loc[t].own_params, dflt_query_params),
                           headers |-> dflt_headers])
    /\ pc' = [pc EXCEPT ![t] = "waiting"]
    /\ UNCHANGED <<url, token, txn_id, dflt_query_params, dflt_headers, loc, overlap>>
    /\ UNCHANGED seqvars

\* lines 221-226: the response arrives; _send raises MatrixRequestError,
\* returns response.json() or passes on its ValueError, and the call is over
Return(t) ==
    /\ pc[t] = "waiting"
    /\ \E response \in Responses :
         loc' = [loc EXCEPT ![t].outcome =
                    IF IsErrorStatus(response.status) THEN "MatrixRequestError"
                    ELSE IF JsonValid(response.text) THEN "returned"
                    ELSE "ValueError"]
    /\ pc' = [pc EXCEPT ![t] = "done"]
    /\ UNCHANGED <<url, token, txn_id, dflt_query_params, dflt_headers, net, overlap>>
    /\ UNCHANGED seqvars

\* line 216: requests.request raises; the exception ends the call
RequestFails(t) ==
    /\ pc[t] = "waiting"
    /\ loc' = [loc EXCEPT ![t].outcome = "TransportError"]
    /\ pc' = [pc EXCEPT ![t] = "done"]
    /\ UNCHANGED <<url, token, txn_id, dflt_query_params, dflt_headers, net, overlap>>
    /\ UNCHANGED seqvars

NextThreads ==
    \/ \E t \in Threads, s \in Sessions, op \in ThreadOps : Call(t, s, op)
    \/ \E t \in Threads : ReadTxn(t)
    \/ \E t \in Threads : LoadTxn(t)
    \/ \E t \in Threads : StoreTxn(t)
    \/ \E t \in Threads : SetHeaders(t)
    \/ \E t \in Threads : SetToken(t)
    \/ \E t \in Threads : Request(t)
    \/ \E t \in Threads : Return(t)
    \/ \E t \in Threads : RequestFails(t)

SpecThreads == Init /\ [][NextThreads]_vars

\* ------------------------------------------------------------------------
\* Reading a request back
\* ------------------------------------------------------------------------

\* path.split("/")
RECURSIVE Split(_)
Split(path) ==
    IF \A i \in 1..Len(path) : path[i] # 47
    THEN <<path>>
    ELSE LET i == CHOOSE k \in 1..Len(path) :
                     path[k] = 47 /\ \A j \in 1..(k - 1) : path[j] # 47
         IN  <<SubSeq(path, 1, i - 1)>> \o Split(SubSeq(path, i + 1, Len(path)))

\* value of a hexadecimal digit, -1 for any other character
HexValue(c) ==
    IF c >= 48 /\ c <= 57 THEN c - 48
    ELSE IF c >= 65 /\ c <= 70 THEN c - 55
    ELSE IF c >= 97 /\ c <= 102 THEN c - 87
    ELSE -1

IsEscapeAt(seg, i) ==
    /\ seg[i] = 37
    /\ i + 2 <= Len(seg)
    /\ HexValue(seg[i + 1]) >= 0
    /\ HexValue(seg[i + 2]) >= 0

\* percent-decoding of a segment
RECURSIVE Unquote(_)
Unquote(seg) ==
    IF Len(seg) = 0 THEN <<>>
    ELSE IF IsEscapeAt(seg, 1)
    THEN <<16 * HexValue(seg[2]) + HexValue(seg[3])>>
         \o Unquote(SubSeq(seg, 4, Len(seg)))
    ELSE <<seg[1]>> \o Unquote(Tail(seg))

\* a segment in which every character is unreserved or belongs to a %XX escape
IsPercentEncoded(seg) ==
    \A i \in 1..Len(seg) :
        \/ seg[i] \in AlwaysSafe
        \/ IsEscapeAt(seg, i)
        \/ i > 1 /\ IsEscapeAt(seg, i - 1)
        \/ i > 2 /\ IsEscapeAt(seg, i - 2)

\* the last segment of the path of a message send: its transaction id
TxnSegment(path) == LET segs == Split(path) IN segs[Len(segs)]

\* int(text) for a text of decimal digits
RECURSIVE ToInt(_)
ToInt(text) ==
    IF Len(text) = 0 THEN 0
    ELSE 10 * ToInt(SubSeq(text, 1, Len(text) - 1)) + (text[Len(text)] - 48)

\* the message sends of session s, in call order
SendsOf(s) == SelectSeq(sends, LAMBDA e : e.session = s)

\* a send that omits the transaction id
Omits(e) == Len(e.txn_arg) = 0

\* a send that passes a transaction id other than 0
Explicit(e) == Len(e.txn_arg) = 1 /\ e.txn_arg[1] # 0

\* ------------------------------------------------------------------------
\* Properties
\* ------------------------------------------------------------------------

\* C1: on a session all of whose n message sends so far omitted the
\* transaction id, the requests carry the transaction segments 0, 1, ..., n-1
\* in call order, and the session's counter equals n.
C1_FreshCounterSequence ==
    \A s \in Sessions :
        LET q == SendsOf(s)
        IN  (\A i \in 1..Len(q) : Omits(q[i]))
            => /\ \A i \in 1..Len(q) : TxnSegment(q[i].path) = Unicode(i - 1)
               /\ txn_id[s] = Len(q)

\* two sends on one session, both without a transaction id
C1_Witness ==
    \E s \in Sessions :
        LET q == SendsOf(s)
        IN  /\ Len(q) >= 2
            /\ \A i \in 1..Len(q) : Omits(q[i])
            /\ TxnSegment(q[2].path) = <<49>>

\* C2: every request handed to the transport carries the query parameter
\* access_token equal to the token of the session that made the call (None
\* when the session has none) and the header Content-Type: application/json.
C2_TokenAndContentType ==
    \A i \in 1..Len(wire) :
        /\ "access_token" \in DOMAIN wire[i].params
        /\ wire[i].params["access_token"] = token[wire[i].session]
        /\ "Content-Type" \in DOMAIN wire[i].headers
        /\ wire[i].headers["Content-Type"] = "application/json"

\* a request of the session without a token, made through the shared default
\* dict after a call of the other session has written its token there
C2_Witness ==
    /\ Len(wire) = 1
    /\ wire[1].call.op = "register"
    /\ wire[1].session = 1
    /\ token[1] = None
    /\ wire[1].params["access_token"] = None
    /\ Len(sends) >= 1
    /\ sends[Len(sends)].session = 2

\* C3: no join_room with None or "" and no dispatch whose upper-cased method
\* is not GET, PUT, POST or DELETE ever reaches the transport; and every step in
\* which a call ends in the local error (MatrixError) makes no request and
\* leaves token, url and txn_id unchanged.
C3_RejectedCallsTouchNothing ==
    [][ /\ \A i \in 1..Len(wire') :
             LET c == wire'[i].call
             IN  /\ c.op = "join_room" => Len(c.room) # 0
                 /\ wire'[i].method \in {GET, PUT, POST, DELETE}
        /\ (Len(wire) = 0 /\ result'.kind = "MatrixError")
             => /\ result'.nreq = 0
                /\ Len(wire') = 0
                /\ UNCHANGED <<token, url, txn_id>> ]_vars

\* a dispatch with method "patch" was rejected after the counter had advanced
C3_Witness ==
    /\ result.kind = "MatrixError"
    /\ result.message = <<"Unsupported HTTP method: ", <<80, 65, 84, 67, 72>> >>
    /\ result.nreq = 0
    /\ Len(wire) = 0
    /\ txn_id[1] > 0

\* C4: a call that got a response ends in MatrixRequestError if and only if
\* the status is outside [200, 300); the error carries that status and the
\* body text; the call made exactly one request; and no call ends in
\* MatrixRequestError without a response.
C4_ProtocolErrorIffNon2xx ==
    /\ result.kind = "MatrixRequestError" => Len(result.response) = 1
    /\ Len(result.response) = 1 =>
         LET r == result.response[1]
         IN  /\ (result.kind = "MatrixRequestError")
                  <=> (r.status < 200 \/ r.status >= 300)
             /\ result.kind = "MatrixRequestError" =>
                  /\ result.code = r.status
                  /\ result.content = r.text
             /\ result.nreq = 1

\* the transport answered 403 with the M_FORBIDDEN body
C4_Witness ==
    /\ result.kind = "MatrixRequestError"
    /\ result.code = 403
    /\ result.content = "{\"errcode\":\"M_FORBIDDEN\"}"
    /\ result.nreq = 1

\* the path segments a call of join_room, send_state_event or
\* send_message_event is to produce: the literal ones as they are, the
\* caller's ones as the strings the caller gave
Literal(text) == [user |-> FALSE, text |-> text]

FromUser(text) == [user |-> TRUE, text |-> text]

\* "join", "rooms", "state", "send" and the empty text before the first "/"
WantedSegments(c) ==
    IF c.op = "join_room"
    THEN <<Literal(<<>>), Literal(<<106, 111, 105, 110>>), FromUser(c.room)>>
    ELSE IF c.op = "send_state_event"
    THEN <<Literal(<<>>), Literal(<<114, 111, 111, 109, 115>>), FromUser(c.room),
           Literal(<<115, 116, 97, 116, 101>>), FromUser(c.event_type)>>
         \o (IF Len(c.state_key) # 0 THEN <<FromUser(c.state_key)>> ELSE <<>>)
    ELSE <<Literal(<<>>), Literal(<<114, 111, 111, 109, 115>>), FromUser(c.room),
           Literal(<<115, 101, 110, 100>>), FromUser(c.event_type),
           FromUser(Unicode(c.txn))>>

\* C5: in every request of join_room, send_state_event and send_message_event
\* the path splits into the segments of the operation, and each segment
\* supplied by the caller is percent-encoded and decodes to the caller's string.
C5_SegmentsPercentEncoded ==
    \A i \in 1..Len(wire) :
        LET c == wire[i].call
        IN  c.op \in {"join_room", "send_state_event", "send_message_event",
                      "send_message"}
            => LET want == WantedSegments(c)
                   segs == Split(wire[i].endpoint.path)
                   base == Len(Split(url[wire[i].session].path)) - 1
               IN  /\ Len(segs) = base + Len(want)
                   /\ \A k \in 1..Len(want) :
                        IF want[k].user
                        THEN /\ IsPercentEncoded(segs[base + k])
                             /\ Unquote(segs[base + k]) = want[k].text
                        ELSE k > 1 => segs[base + k] = want[k].text

\* C6: two send_message_event calls of two threads on one session, neither
\* with a transaction id, that did not overlap in time (the second was entered
\* after the first had returned or raised) carry different ids.
C6_SerializedIdsDiffer ==
    \A i \in 1..Len(net), j \in 1..Len(net) :
        ( /\ i < j
          /\ net[i].op = "send_message_event"
          /\ net[j].op = "send_message_event"
          /\ net[i].session = net[j].session
          /\ ~ overlap )
        => net[i].txn # net[j].txn

\* two overlapping send_message_event calls on one session sent the same id
C6_Witness ==
    /\ Len(net) = 2
    /\ net[1].op = "send_message_event"
    /\ net[2].op = "send_message_event"
    /\ net[1].session = net[2].session
    /\ net[1].thread # net[2].thread
    /\ net[1].txn = net[2].txn
    /\ net[1].path = net[2].path
    /\ overlap

\* the query parameters a call of a thread passes to _send
ThreadParams(op) == IF op = "initial_sync" THEN [limit |-> 1] ELSE EmptyDict

\* C7: with calls of threads running concurrently, every request reaches the
\* transport with the access_token of its own session, with no other query
\* parameter than those of its own call, and with the header Content-Type only.
C7_RequestsCarryOwnState ==
    \A i \in 1..Len(net) :
        /\ net[i].params =
             [x \in (DOMAIN ThreadParams(net[i].op)) \cup {"access_token"} |->
                 IF x = "access_token" THEN token[net[i].session]
                 ELSE ThreadParams(net[i].op)[x]]
        /\ net[i].headers = [x \in {"Content-Type"} |-> "application/json"]

\* C8 as stated: a send with a transaction id other than 0 carries that id in
\* its path and leaves the counter alone, so that the counter counts the sends
\* that took their id from it.
C8_ExplicitSendLeavesCounter ==
    \A s \in Sessions :
        LET q == SendsOf(s)
        IN  /\ \A i \in 1..Len(q) :
                 Explicit(q[i]) => TxnSegment(q[i].path) = Unicode(q[i].txn_arg[1])
            /\ txn_id[s] = Len(SelectSeq(q, LAMBDA e : ~ Explicit(e)))

\* C8 as amended: a send with a transaction id other than 0 carries that id in
\* its path and advances the counter by one like any other send, so that the
\* counter counts all sends of the session and the i-th send, when it takes its
\* id from the counter, carries i - 1.
C8_ExplicitSendAdvancesCounter ==
    \A s \in Sessions :
        LET q == SendsOf(s)
        IN  /\ \A i \in 1..Len(q) :
                 TxnSegment(q[i].path) =
                     IF Explicit(q[i]) THEN Unicode(q[i].txn_arg[1])
                     ELSE Unicode(i - 1)
            /\ txn_id[s] = Len(q)

\* a send with txn_id 7 followed by a send without one, which carries 1
C8_Witness ==
    \E s \in Sessions :
        LET q == SendsOf(s)
        IN  /\ Len(q) >= 2
            /\ q[1].txn_arg = Some(7)
            /\ TxnSegment(q[1].path) = <<55>>
            /\ Omits(q[2])
            /\ TxnSegment(q[2].path) = <<49>>
            /\ txn_id[s] >= 2

\* the query parameters and headers a call passes to _send
OwnParams(c) ==
    IF c.op = "initial_sync" THEN [limit |-> c.limit]
    ELSE IF c.op = "event_stream" THEN [from |-> c.from, timeout |-> c.timeout]
    ELSE IF c.op = "_send" /\ Len(c.query_params) = 1 THEN c.query_params[1]
    ELSE EmptyDict

OwnHeaders(c) ==
    IF c.op = "_send" /\ Len(c.headers) = 1 THEN c.headers[1] ELSE EmptyDict

\* C9: in sequential use the query parameters of every request are those of
\* the call that makes it plus access_token, and its headers are those of the
\* call plus Content-Type: nothing written by an earlier call is in them.
C9_NothingLeftFromEarlierCalls ==
    \A i \in 1..Len(wire) :
        LET c == wire[i].call
        IN  /\ wire[i].params =
                 [x \in (DOMAIN OwnParams(c)) \cup {"access_token"} |->
                     IF x = "access_token" THEN token[wire[i].session]
                     ELSE OwnParams(c)[x]]
            /\ wire[i].headers =
                 [x \in (DOMAIN OwnHeaders(c)) \cup {"Content-Type"} |->
                     IF x = "Content-Type" THEN "application/json"
                     ELSE OwnHeaders(c)[x]]

\* a create_room request of session 2, through the shared default dicts, after
\* sends of session 1 have written to them
C9_Witness ==
    /\ Len(wire) = 1
    /\ wire[1].call.op = "create_room"
    /\ wire[1].session = 2
    /\ DOMAIN wire[1].params = {"access_token"}
    /\ DOMAIN dflt_query_params = {"access_token"}
    /\ DOMAIN dflt_headers = {"Content-Type"}
    /\ Len(sends) >= 1
    /\ sends[Len(sends)].session = 1

\* the sends of session s that took their transaction id from the counter
CounterSends(s) == SelectSeq(SendsOf(s), LAMBDA e : ~ Explicit(e))

\* C10: in sequential use the transaction ids taken from a session's counter
\* are strictly increasing in call order (so no two are equal), whatever the
\* outcome of the sends, and each is below the counter from the moment its
\* request is handed to the transport.
C10_CounterIdsStrictlyIncrease ==
    \A s \in Sessions :
        LET q == CounterSends(s)
        IN  /\ \A i \in 1..Len(q), j \in 1..Len(q) :
                 i < j => ToInt(TxnSegment(q[i].path)) < ToInt(TxnSegment(q[j].path))
            /\ \A i \in 1..Len(q) : ToInt(TxnSegment(q[i].path)) < txn_id[s]

\* three sends took their ids from the counter of one session and the latest
\* call failed with a protocol error
C10_Witness ==
    \E s \in Sessions :
        /\ Len(CounterSends(s)) = Len(sends)
        /\ Len(sends) >= 3
        /\ result.kind = "MatrixRequestError"

====
